---- MODULE Spec2Model ----
(***************************************************************************)
(* Hitherto frontend: the chat Selection State (ChatProvider), the Select  *)
(* flow of a newsletter row, the filter controls, the two chat send paths  *)
(* (ChatPanel /ask mutation and useLLMChat) with their /context requests,  *)
(* the context service behind POST /context, and the notebook provider.    *)
(***************************************************************************)
EXTENDS Integers, Sequences, FiniteSets, Bags, TLC

(***************************************************************************)
(* Bounds of the exploration.                                              *)
(***************************************************************************)
\* filter dates range over the days 1..MaxDay
MaxDay == 1
\* Select flows that may be awaiting the network at once
MaxFlows == 2
\* clock ticks in one day (received timestamps are finer than filter dates)
TicksPerDay == 2
\* chat sends issued in one run
MaxSends == 2

(***************************************************************************)
(* Values.                                                                 *)
(***************************************************************************)
\* the empty string / undefined of a date-typed field (falsy in JS)
Unset == 0
\* the empty string of the category filter ("All categories")
NoCategory == ""
\* a null category of a newsletter
NullCategory == "null"

\* the newsletters the table lists (NewsletterLite rows): D1 is received the
\* day before day 1, D2 on day 1, D3 the day after day 1; D3 has no category
MessageIds == {"D1", "D2", "D3"}

Newsletters ==
  [ D1 |-> [message_id |-> "D1", title |-> "T1", category |-> "econ",
            received_at |-> 1],
    D2 |-> [message_id |-> "D2", title |-> "T2", category |-> "tech",
            received_at |-> TicksPerDay + 1],
    D3 |-> [message_id |-> "D3", title |-> "T3", category |-> NullCategory,
            received_at |-> 2 * TicksPerDay + 1] ]

\* the options of the category select besides "All categories"
Categories == {"econ", "tech"}

\* the values a DayPicker range selection yields after format(): a from day,
\* and a to day (>= from) or none
Ranges ==
  { r \in [from : 1..MaxDay, to : {Unset} \cup (1..MaxDay)] :
      r.to = Unset \/ r.from <= r.to }

\* data.data.chunks of GET /ingest/chunked_text/{id}
ChunkedText(id) == << id >>

VARIABLES
  context,      \* ChatProvider: ChatCtxItem[] (the pinned items)
  filters,      \* ChatProvider: Filters {category, start, end}
  flows,        \* Select flows awaiting the network: bag of [id, f]
  page,         \* EmailsPage: the cat, start, end states
  sends,        \* chat sends awaiting a response
  llmMessages,  \* useLLMChat: messages
  messages,     \* ChatProvider: messages (the /ask transcript)
  loading,      \* useLLMChat: loading
  askStatus,    \* the ask mutation's status
  nextSid,      \* sends issued so far
  store,        \* the chunk store behind POST /context
  request,      \* the POST /context call at the service (none or one)
  result,       \* its response body (none or one)
  caller,       \* who built the request
  nb,           \* NotebookProvider: the state {session, file, cells, loaded}
  rendered,     \* NotebookProvider: the state of the render committed last
  calls,        \* openFile / newNotebook calls awaiting the network
  created,      \* kernel sessions POST /notebook/new created
  shutdowns,    \* sessions whose shutdown was requested
  nextCall,     \* openFile / newNotebook calls made so far
  edits,        \* addCell / updateCell / runCell calls made so far
  runs,         \* runCell calls awaiting /execute
  last          \* the UI event or continuation handled last

selVars == << context, filters, flows, page >>
chatVars == << sends, llmMessages, messages, loading, askStatus, nextSid >>
svcVars == << store, request, result, caller >>
nbVars == << nb, rendered, calls, created, shutdowns, nextCall, edits, runs >>
vars == << context, filters, flows, page, sends, llmMessages, messages, loading,
           askStatus, nextSid, store, request, result, caller, nb, rendered,
           calls, created, shutdowns, nextCall, edits, runs, last >>

(***************************************************************************)
(* ChatProvider.                                                           *)
(***************************************************************************)
\* JS truthiness of a string | null | undefined category
Truthy(s) == s # NoCategory /\ s # NullCategory

\* new Date("yyyy-MM-dd"): midnight of that day, in ticks
ParseDate(d) == d * TicksPerDay

\* ed.setDate(ed.getDate() + 1)
AddDay(t) == t + TicksPerDay

computeOC(item, f) ==
  IF Truthy(f.category) /\ Truthy(item.category) /\ item.category # f.category
    THEN TRUE
  ELSE IF f.start # Unset /\ item.receivedAt # Unset
          /\ item.receivedAt < ParseDate(f.start)
    THEN TRUE
  ELSE IF f.end # Unset /\ item.receivedAt # Unset
          /\ item.receivedAt >= AddDay(ParseDate(f.end))
    THEN TRUE
  ELSE FALSE

\* { ...c, oc }
WithOC(c, oc) ==
  [k \in DOMAIN c \cup {"oc"} |-> IF k = "oc" THEN oc ELSE c[k]]

Ids(ctx) == { ctx[i].messageId : i \in 1..Len(ctx) }

\* toggleContext without its exists branch
toggleContext_AddOnly(ctx, c, f) == Append(ctx, WithOC(c, computeOC(c, f)))

\* toggleContext whose add branch also refreshes the flags of the entries
\* already pinned
toggleContext_Refresh(ctx, c, f) ==
  IF c.messageId \in Ids(ctx)
    THEN SelectSeq(ctx, LAMBDA i : i.messageId # c.messageId)
    ELSE LET added == Append(ctx, WithOC(c, computeOC(c, f)))
         IN [i \in 1..Len(added) |-> WithOC(added[i], computeOC(added[i], f))]

\* the updater of toggleContext; f is the filters of the render whose
\* toggleContext closure is called
toggleContext(ctx, c, f) ==
  IF c.messageId \in Ids(ctx)
    THEN SelectSeq(ctx, LAMBDA i : i.messageId # c.messageId)
    ELSE Append(ctx, WithOC(c, computeOC(c, f)))

\* ({ ...f }) over the defaults: the fields f does not name are reset
mergeFilters_Replace(flts, f) ==
  [k \in DOMAIN flts \cup DOMAIN f |->
     IF k \in DOMAIN f THEN f[k] ELSE IF k = "category" THEN NoCategory ELSE Unset]

\* ({ ...flts, ...f })
mergeFilters(flts, f) ==
  [k \in DOMAIN flts \cup DOMAIN f |-> IF k \in DOMAIN f THEN f[k] ELSE flts[k]]

\* an effect that only raises flags: i.oc || computeOC(i, filters)
recomputeOC_Patch(ctx, f) ==
  [i \in 1..Len(ctx) |-> WithOC(ctx[i], ctx[i].oc \/ computeOC(ctx[i], f))]

\* the effect on [filters]: ctx.map((i) => ({ ...i, oc: computeOC(i, filters) }))
recomputeOC(ctx, f) ==
  [i \in 1..Len(ctx) |-> WithOC(ctx[i], computeOC(ctx[i], f))]

\* setFilters(f) followed by the effect its state change triggers
setFilters(f) ==
  /\ filters' = mergeFilters(filters, f)
  /\ context' = recomputeOC(context, filters')

InitFilters == [category |-> NoCategory, start |-> Unset, end |-> Unset]

(***************************************************************************)
(* EmailsPage and useFilters: the rows of the newsletter table.            *)
(***************************************************************************)
\* category.toLowerCase().replace(/ /g, "_")
Normalize(c) ==
  CASE c = "Tech" -> "tech"
    [] c = "Supply Lines" -> "supply_lines"
    [] OTHER -> c

\* the predicate of data.filter in useFilters: n stays in the table
useFilters(n, category, start, end) ==
  IF category # NoCategory /\ n.category # Normalize(category) THEN FALSE
  ELSE IF start # Unset /\ n.received_at < ParseDate(start) THEN FALSE
  ELSE IF end # Unset /\ n.received_at >= AddDay(ParseDate(end)) THEN FALSE
  ELSE TRUE

\* the row of newsletter id is rendered
Listed(id) == useFilters(Newsletters[id], page.cat, page.start, page.end)

InitPage == [cat |-> NoCategory, start |-> Unset, end |-> Unset]

(***************************************************************************)
(* NewsletterRow: the Select / Deselect button.                            *)
(***************************************************************************)
\* the item the row passes to toggleContext
RowItem(id, chunks) ==
  [messageId |-> id, title |-> Newsletters[id].title, chunks |-> chunks,
   category |-> Newsletters[id].category,
   receivedAt |-> Newsletters[id].received_at]

\* what `last` records: the handler that ran, the row it was for, and the
\* partial filters it passed to setFilters
Event(op, id) == [op |-> op, id |-> id, f |-> << >>]
FilterEvent(op, f) == [op |-> op, id |-> "", f |-> f]

\* onClick up to its first await: a pinned row is deselected at once, an
\* unpinned one starts the flow, which keeps the render's toggleContext
SelectClick(id) ==
  /\ Listed(id)
  /\ IF id \in Ids(context)
       THEN /\ context' = toggleContext(context, RowItem(id, << >>), filters)
            /\ last' = Event("deselect", id)
            /\ UNCHANGED << filters, flows, page >>
            /\ UNCHANGED chatVars
            /\ UNCHANGED svcVars
            /\ UNCHANGED nbVars
       ELSE /\ BagCardinality(flows) < MaxFlows
            /\ flows' = flows (+) SetToBag({[id |-> id, f |-> filters]})
            /\ last' = Event("select", id)
            /\ UNCHANGED << context, filters, page >>
            /\ UNCHANGED chatVars
            /\ UNCHANGED svcVars
            /\ UNCHANGED nbVars

\* the flow after its awaits succeeded with data.success
SelectFlowDone(fl) ==
  /\ BagIn(fl, flows)
  /\ flows' = flows (-) SetToBag({fl})
  /\ context' = toggleContext(context, RowItem(fl.id, ChunkedText(fl.id)), fl.f)
  /\ last' = Event("toggled", fl.id)
  /\ UNCHANGED << filters, page >>
  /\ UNCHANGED chatVars
  /\ UNCHANGED svcVars
  /\ UNCHANGED nbVars

\* the flow when chunk.mutateAsync or the GET throws, or data.success is false
SelectFlowFail(fl) ==
  /\ BagIn(fl, flows)
  /\ flows' = flows (-) SetToBag({fl})
  /\ last' = Event("flowfail", fl.id)
  /\ UNCHANGED << context, filters, page >>
  /\ UNCHANGED chatVars
  /\ UNCHANGED svcVars
  /\ UNCHANGED nbVars

(***************************************************************************)
(* The filter controls.                                                    *)
(***************************************************************************)
\* CategorySelect onChange
CategoryChange(c) ==
  /\ page' = [page EXCEPT !.cat = c]
  /\ setFilters([category |-> c])
  /\ last' = FilterEvent("category", [category |-> c])
  /\ UNCHANGED flows
  /\ UNCHANGED chatVars
  /\ UNCHANGED svcVars
  /\ UNCHANGED nbVars

\* DateRangeFilter onSelect with a range
DateRangeSelect(r) ==
  /\ page' = [page EXCEPT !.start = r.from, !.end = r.to]
  /\ setFilters([start |-> r.from, end |-> r.to])
  /\ last' = FilterEvent("range", [start |-> r.from, end |-> r.to])
  /\ UNCHANGED flows
  /\ UNCHANGED chatVars
  /\ UNCHANGED svcVars
  /\ UNCHANGED nbVars

\* DateRangeFilter onSelect without a range
DateRangeClear ==
  /\ page' = [page EXCEPT !.start = Unset, !.end = Unset]
  /\ setFilters([start |-> Unset, end |-> Unset])
  /\ last' = FilterEvent("rangeClear", [start |-> Unset, end |-> Unset])
  /\ UNCHANGED flows
  /\ UNCHANGED chatVars
  /\ UNCHANGED svcVars
  /\ UNCHANGED nbVars

\* DateRangeFilter Reset
DateRangeReset ==
  /\ page' = [page EXCEPT !.start = Unset, !.end = Unset]
  /\ setFilters([start |-> Unset, end |-> Unset])
  /\ last' = FilterEvent("rangeReset", [start |-> Unset, end |-> Unset])
  /\ UNCHANGED flows
  /\ UNCHANGED chatVars
  /\ UNCHANGED svcVars
  /\ UNCHANGED nbVars

(***************************************************************************)
(* ChatPanel: the Clear button.                                            *)
(***************************************************************************)
\* the provider's value holds no clearContext: the button's onClick is
\* undefined and the click changes nothing
ClearClick ==
  /\ Len(context) > 0
  /\ last' = Event("clear", "")
  /\ UNCHANGED << context, filters, flows, page >>
  /\ UNCHANGED chatVars
  /\ UNCHANGED svcVars
  /\ UNCHANGED nbVars

(***************************************************************************)
(* Values of the notebook.                                                 *)
(***************************************************************************)
\* useState(""), useState(""), useState([]), useState(false)
InitNotebook == [session |-> "", file |-> "", cells |-> << >>, loaded |-> FALSE]

(***************************************************************************)
(* Values of the context service.                                          *)
(***************************************************************************)
\* the bound the clients request
K == 5
\* the hard maximum the requested bound is clamped to
HardMax == 20
\* JSON null of start_date / end_date
NullDate == -1

\* the chunk store in insertion order (chunk id ascending), each chunk with
\* its similarity to the query; D3 has no extracted chunk
ChunkStore ==
  << [doc |-> "D1", seq |-> 0, sim |-> 1],
     [doc |-> "D1", seq |-> 1, sim |-> 2],
     [doc |-> "D2", seq |-> 0, sim |-> 2] >>

(***************************************************************************)
(* Specification of the selection.                                         *)
(***************************************************************************)
Init ==
  /\ context = << >>
  /\ filters = InitFilters
  /\ flows = EmptyBag
  /\ page = InitPage
  /\ sends = {}
  /\ llmMessages = << >>
  /\ messages = << >>
  /\ loading = FALSE
  /\ askStatus = [sid |-> 0, status |-> "idle"]
  /\ nextSid = 0
  /\ store = ChunkStore
  /\ request = << >>
  /\ result = << >>
  /\ caller = "none"
  /\ nb = InitNotebook
  /\ rendered = InitNotebook
  /\ calls = {}
  /\ created = {}
  /\ shutdowns = {}
  /\ nextCall = 0
  /\ edits = 0
  /\ runs = {}
  /\ last = Event("mount", "")

Next ==
  \/ \E id \in MessageIds : SelectClick(id)
  \/ \E fl \in BagToSet(flows) : SelectFlowDone(fl)
  \/ \E fl \in BagToSet(flows) : SelectFlowFail(fl)
  \/ \E c \in Categories \cup {NoCategory} : CategoryChange(c)
  \/ \E r \in Ranges : DateRangeSelect(r)
  \/ DateRangeClear
  \/ DateRangeReset
  \/ ClearClick

Spec == Init /\ [][Next]_vars

(***************************************************************************)
(* EmailsPage under the root layout: the page is mounted anew when the     *)
(* user follows a Link away from "/" and comes back, the providers of the  *)
(* layout stay mounted.                                                    *)
(***************************************************************************)
\* EmailsPage mounts: useState(""), useState(""), useState(""); the
\* ChatProvider of the layout keeps its filters, its context and the flows
\* holding its toggleContext
PageRemount ==
  /\ page' = InitPage
  /\ last' = Event("remount", "")
  /\ UNCHANGED << context, filters, flows >>
  /\ UNCHANGED chatVars
  /\ UNCHANGED svcVars
  /\ UNCHANGED nbVars

NextPage ==
  \/ Next
  \/ PageRemount

SpecPage == Init /\ [][NextPage]_vars

(***************************************************************************)
(* The context service behind POST /context (backend).                     *)
(***************************************************************************)
\* a trim that returns its argument
Trim_Identity(t) == t

\* text.trim() of the texts typed
Trim(t) ==
  CASE t = " " -> ""
    [] t = " rates " -> "rates"
    [] OTHER -> t

Range(q) == { q[i] : i \in 1..Len(q) }

IsExplicit(req) == "message_ids" \in DOMAIN req /\ Len(req.message_ids) > 0
IsFiltered(req) ==
  /\ ~IsExplicit(req)
  /\ Len(req.categories) > 0 \/ req.start_date # NullDate \/ req.end_date # NullDate

ScopeOf(req) ==
  IF IsExplicit(req) THEN "explicit"
  ELSE IF IsFiltered(req) THEN "filtered" ELSE "unfiltered"

\* a document that matches any one of the supplied filters
MatchesFilters_Any(n, req) ==
  \/ Len(req.categories) > 0 /\ n.category \in Range(req.categories)
  \/ req.start_date # NullDate /\ n.received_at >= ParseDate(req.start_date)
  \/ req.end_date # NullDate /\ n.received_at < AddDay(ParseDate(req.end_date))

\* the owning document matches all supplied filters
MatchesFilters(n, req) ==
  /\ Len(req.categories) > 0 => n.category \in Range(req.categories)
  /\ req.start_date # NullDate => n.received_at >= ParseDate(req.start_date)
  /\ req.end_date # NullDate => n.received_at < AddDay(ParseDate(req.end_date))

\* the positions of the candidate chunks under the request's scope
Candidates(req) ==
  { i \in 1..Len(store) :
      CASE ScopeOf(req) = "explicit" -> store[i].doc \in Range(req.message_ids)
        [] ScopeOf(req) = "filtered" -> MatchesFilters(Newsletters[store[i].doc], req)
        [] OTHER -> TRUE }

\* descending similarity, ties by the later store position
Best_LastTie(S) ==
  CHOOSE i \in S : \A j \in S :
    \/ store[i].sim > store[j].sim
    \/ store[i].sim = store[j].sim /\ i >= j

\* descending similarity, ties by store position
Best(S) ==
  CHOOSE i \in S : \A j \in S :
    \/ store[i].sim > store[j].sim
    \/ store[i].sim = store[j].sim /\ i <= j

RECURSIVE TopN(_, _)
TopN(S, n) ==
  IF S = {} \/ n = 0 THEN << >>
  ELSE << Best(S) >> \o TopN(S \ {Best(S)}, n - 1)

\* a bound that is honoured as requested
Min_Unclamped(a, b) == a

Min(a, b) == IF a < b THEN a ELSE b

ContextDoc(i) ==
  [page_content |-> << store[i].doc, store[i].seq >>,
   metadata |-> [message_id |-> store[i].doc]]

\* a service that reports an empty candidate set as a failure
assembleContext_EmptyFails(req) ==
  IF Trim(req.query) = "" \/ req.k <= 0
    THEN [success |-> FALSE, error |-> "InvalidRequest", data |-> << >>]
  ELSE IF Candidates(req) = {}
    THEN [success |-> FALSE, error |-> "EmptyResult", data |-> << >>]
    ELSE LET top == TopN(Candidates(req), Min(req.k, HardMax))
         IN [success |-> TRUE, error |-> "",
             data |-> [j \in 1..Len(top) |-> ContextDoc(top[j])]]

\* assembleContext: the response body to a request
assembleContext(req) ==
  IF Trim(req.query) = "" \/ req.k <= 0
    THEN [success |-> FALSE, error |-> "InvalidRequest", data |-> << >>]
    ELSE LET top == TopN(Candidates(req), Min(req.k, HardMax))
         IN [success |-> TRUE, error |-> "",
             data |-> [j \in 1..Len(top) |-> ContextDoc(top[j])]]

\* the embedder or the index cannot be reached
UpstreamUnavailable == [success |-> FALSE, error |-> "UpstreamUnavailable", data |-> << >>]

(***************************************************************************)
(* ChatPanel.handleSend, the ask mutation and useLLMChat.send.             *)
(***************************************************************************)
\* the text MessageInput passes on
Texts == {"rates"}
\* the send modes: "llm", and "rag" for the modes served by /ask
SendModes == {"llm", "rag"}
\* the rows clicked in the runs of the chat
ChatRows == {"D1", "D3"}

\* filters.start || null
OrNull(d) == IF d = Unset THEN NullDate ELSE d

\* context.map((c) => c.messageId) restricted to the items in context
ContextIds_SkipOC(ctx) ==
  LET keep == SelectSeq(ctx, LAMBDA c : ~c.oc)
  IN [i \in 1..Len(keep) |-> keep[i].messageId]

\* context.map((c) => c.messageId)
ContextIds(ctx) == [i \in 1..Len(ctx) |-> ctx[i].messageId]

ExplicitRequest(text, ids) ==
  [query |-> text, categories |-> << >>, start_date |-> NullDate,
   end_date |-> NullDate, message_ids |-> ids, k |-> K]

FilteredRequest(text, f) ==
  [query |-> text,
   categories |-> IF f.category # NoCategory THEN << f.category >> ELSE << >>,
   start_date |-> OrNull(f.start), end_date |-> OrNull(f.end), k |-> K]

UnfilteredRequest(text) ==
  [query |-> text, categories |-> << >>, start_date |-> NullDate,
   end_date |-> NullDate, k |-> K]

AnyFilter(f) == f.category # NoCategory \/ f.start # Unset \/ f.end # Unset

\* the /context requests the ask mutation issues (always one)
AskContextRequests(text, ctx, f) ==
  IF Len(ctx) > 0 THEN << ExplicitRequest(text, ContextIds(ctx)) >>
  ELSE IF AnyFilter(f) THEN << FilteredRequest(text, f) >>
  ELSE << UnfilteredRequest(text) >>

\* the /context requests useLLMChat.send issues (one or none)
LLMContextRequests(text, contextIds, f) ==
  IF Len(contextIds) > 0 THEN << ExplicitRequest(text, contextIds) >>
  ELSE IF AnyFilter(f) THEN << FilteredRequest(text, f) >>
  ELSE << >>

UserMsg(sid, text) == [role |-> "user", sid |-> sid, text |-> text]
AssistantMsg(sid, text) == [role |-> "assistant", sid |-> sid, text |-> text]

\* a send awaiting a response: the requests it issued to /context, the outcome
\* of that retrieval, the chunk contents it holds, and what it awaits
SendRec(sid, path, text, reqs, msgs) ==
  [sid |-> sid, path |-> path, text |-> text, reqs |-> reqs,
   stage |-> IF Len(reqs) > 0 THEN "context" ELSE "reply",
   ctx |-> IF Len(reqs) > 0 THEN "pending" ELSE "none",
   data |-> << >>, chunks |-> << >>, messages |-> msgs]

\* the system message put before the history
ContextMessage == [role |-> "system", sid |-> 0, text |-> "context"]

\* the messages of the LLM request of send s: [...messages, userMsg] over the
\* messages of its closure, after the context message if it holds chunks
LLMRequest(s) ==
  LET chatHistory == Append(s.messages, UserMsg(s.sid, s.text))
  IN IF Len(s.chunks) > 0 THEN << ContextMessage >> \o chatHistory
     ELSE chatHistory

\* a handleSend that unpins the flagged items as it sends
Send_Unpins(text, sendMode) ==
  /\ nextSid < MaxSends
  /\ nextSid' = nextSid + 1
  /\ IF sendMode = "llm"
       THEN /\ llmMessages' = Append(llmMessages, UserMsg(nextSid', text))
            /\ loading' = TRUE
            /\ sends' = sends \cup
                 { SendRec(nextSid', "llm", text,
                           LLMContextRequests(text, ContextIds(context), filters),
                           llmMessages) }
            /\ UNCHANGED << messages, askStatus >>
       ELSE /\ messages' = Append(messages, UserMsg(nextSid', text))
            /\ askStatus' = [sid |-> nextSid', status |-> "pending"]
            /\ sends' = sends \cup
                 { SendRec(nextSid', "ask", text,
                           AskContextRequests(text, context, filters), << >>) }
            /\ UNCHANGED << llmMessages, loading >>
  /\ last' = Event("chat", "")
  /\ context' = SelectSeq(context, LAMBDA c : ~c.oc)
  /\ UNCHANGED << filters, flows, page >>
  /\ UNCHANGED svcVars
  /\ UNCHANGED nbVars

\* handleSend(text, sendMode) up to the first await of the path taken
Send(text, sendMode) ==
  /\ nextSid < MaxSends
  /\ nextSid' = nextSid + 1
  /\ IF sendMode = "llm"
       THEN /\ llmMessages' = Append(llmMessages, UserMsg(nextSid', text))
            /\ loading' = TRUE
            /\ sends' = sends \cup
                 { SendRec(nextSid', "llm", text,
                           LLMContextRequests(text, ContextIds(context), filters),
                           llmMessages) }
            /\ UNCHANGED << messages, askStatus >>
       ELSE /\ messages' = Append(messages, UserMsg(nextSid', text))
            /\ askStatus' = [sid |-> nextSid', status |-> "pending"]
            /\ sends' = sends \cup
                 { SendRec(nextSid', "ask", text,
                           AskContextRequests(text, context, filters), << >>) }
            /\ UNCHANGED << llmMessages, loading >>
  /\ last' = Event("chat", "")
  /\ UNCHANGED selVars
  /\ UNCHANGED svcVars
  /\ UNCHANGED nbVars

\* data.data.map((d) => d.page_content)
PageContents(data) == [i \in 1..Len(data) |-> data[i].page_content]

\* the reply request carries a context block: chunkContents.length > 0 (the
\* system message), chunks.length > 0 (payload.chunks)
HasContextBlock(s) == Len(s.chunks) > 0

\* the /context response arrives with a body
ContextResponse(s, body) ==
  /\ s \in sends
  /\ s.stage = "context"
  /\ sends' = (sends \ {s}) \cup
       { [s EXCEPT !.stage = "reply",
                   !.ctx = IF body.success THEN "ok" ELSE "failed",
                   !.data = body.data,
                   !.chunks = IF body.success THEN PageContents(body.data)
                              ELSE << >>] }
  /\ last' = Event("chat", "")
  /\ UNCHANGED << llmMessages, messages, loading, askStatus, nextSid >>
  /\ UNCHANGED selVars
  /\ UNCHANGED svcVars
  /\ UNCHANGED nbVars

\* the backend answers the request
ContextAnswered(s) ==
  /\ s \in sends
  /\ s.stage = "context"
  /\ ContextResponse(s, assembleContext(s.reqs[1]))

\* the backend answers success: false
ContextRefused(s) ==
  /\ s \in sends
  /\ s.stage = "context"
  /\ ContextResponse(s, UpstreamUnavailable)

\* the ask mutation's status follows its latest mutation
AskSettled(s, status) ==
  IF askStatus.sid = s.sid THEN [askStatus EXCEPT !.status = status] ELSE askStatus

\* a ContextThrows whose error ends the send on either path
ContextThrows_Rejects(s) ==
  /\ s \in sends
  /\ s.stage = "context"
  /\ sends' = sends \ {s}
  /\ askStatus' = AskSettled(s, "error")
  /\ last' = Event("chat", "")
  /\ UNCHANGED << llmMessages, messages, loading, nextSid >>
  /\ UNCHANGED selVars
  /\ UNCHANGED svcVars
  /\ UNCHANGED nbVars

\* api.post('/context') throws: useLLMChat logs and goes on, the ask
\* mutation rejects
ContextThrows(s) ==
  /\ s \in sends
  /\ s.stage = "context"
  /\ IF s.path = "llm"
       THEN /\ sends' = (sends \ {s}) \cup
                 { [s EXCEPT !.stage = "reply", !.ctx = "threw"] }
            /\ UNCHANGED askStatus
       ELSE /\ sends' = sends \ {s}
            /\ askStatus' = AskSettled(s, "error")
  /\ last' = Event("chat", "")
  /\ UNCHANGED << llmMessages, messages, loading, nextSid >>
  /\ UNCHANGED selVars
  /\ UNCHANGED svcVars
  /\ UNCHANGED nbVars

\* what `last` records when the request of send s settles: whether the
\* context retrieval of an LLM send had failed
ReplyEvent(s) ==
  IF s.path = "llm" /\ s.ctx \in {"failed", "threw"}
    THEN Event("replyNoContext", "") ELSE Event("chat", "")

\* the texts an answered LLM request yields: the content, or its fallback
LLMReplies == {"reply", "[No LLM reply]"}

\* the LLM or /ask response arrives
Reply(s, content) ==
  /\ s \in sends
  /\ s.stage = "reply"
  /\ sends' = sends \ {s}
  /\ IF s.path = "llm"
       THEN /\ llmMessages' = Append(llmMessages, AssistantMsg(s.sid, content))
            /\ loading' = FALSE
            /\ UNCHANGED << messages, askStatus >>
       ELSE /\ messages' = Append(messages, AssistantMsg(s.sid, content))
            /\ askStatus' = AskSettled(s, "success")
            /\ UNCHANGED << llmMessages, loading >>
  /\ last' = ReplyEvent(s)
  /\ UNCHANGED nextSid
  /\ UNCHANGED selVars
  /\ UNCHANGED svcVars
  /\ UNCHANGED nbVars

\* the LLM or /ask request throws
ReplyThrows(s) ==
  /\ s \in sends
  /\ s.stage = "reply"
  /\ sends' = sends \ {s}
  /\ IF s.path = "llm"
       THEN /\ llmMessages' =
                 Append(llmMessages,
                        AssistantMsg(s.sid, "[LLM error: could not get response]"))
            /\ loading' = FALSE
            /\ UNCHANGED << messages, askStatus >>
       ELSE /\ askStatus' = AskSettled(s, "error")
            /\ UNCHANGED << llmMessages, messages, loading >>
  /\ last' = ReplyEvent(s)
  /\ UNCHANGED nextSid
  /\ UNCHANGED selVars
  /\ UNCHANGED svcVars
  /\ UNCHANGED nbVars

(***************************************************************************)
(* Specification of the chat: the selection and the filters are arranged   *)
(* while no send awaits a response, each Select flow running to its end    *)
(* before the next event.                                                  *)
(***************************************************************************)
\* a Select click whose flow completes before any other event
SelectNow(id) ==
  /\ sends = {}
  /\ Listed(id)
  /\ context' = toggleContext(context,
                  RowItem(id, IF id \in Ids(context) THEN << >> ELSE ChunkedText(id)),
                  filters)
  /\ last' = Event(IF id \in Ids(context) THEN "deselect" ELSE "toggled", id)
  /\ UNCHANGED << filters, flows, page >>
  /\ UNCHANGED chatVars
  /\ UNCHANGED svcVars
  /\ UNCHANGED nbVars

CategoryChangeIdle(c) == sends = {} /\ CategoryChange(c)
DateRangeSelectIdle(r) == sends = {} /\ DateRangeSelect(r)
DateRangeResetIdle == sends = {} /\ DateRangeReset

NextChat ==
  \/ \E id \in ChatRows : SelectNow(id)
  \/ \E c \in Categories \cup {NoCategory} : CategoryChangeIdle(c)
  \/ \E r \in Ranges : DateRangeSelectIdle(r)
  \/ DateRangeResetIdle
  \/ \E text \in Texts, sendMode \in SendModes : Send(text, sendMode)
  \/ \E s \in sends : ContextAnswered(s)
  \/ \E s \in sends : ContextRefused(s)
  \/ \E s \in sends : ContextThrows(s)
  \/ \E s \in sends, content \in LLMReplies : Reply(s, content)
  \/ \E s \in sends : ReplyThrows(s)

SpecChat == Init /\ [][NextChat]_vars

\* a request that was posted settles: the backend and the LLM server answer,
\* refuse or fail in the end
ContextSettles(s) == ContextAnswered(s) \/ ContextRefused(s) \/ ContextThrows(s)
ReplySettles(s) == ReplyThrows(s) \/ \E content \in LLMReplies : Reply(s, content)

SpecChatLive ==
  /\ SpecChat
  /\ WF_vars(\E s \in sends : ContextSettles(s) \/ ReplySettles(s))

(***************************************************************************)
(* Specification of the context service: POST /context called with the     *)
(* requests the two send paths build, and with requests of other callers.  *)
(***************************************************************************)
\* calls made with one request
MaxCalls == 2

\* a store in which more chunks tie than the hard maximum lets through, and
\* every newsletter has a chunk
BigStore ==
  [i \in 1..(HardMax + 3) |->
     IF i <= HardMax + 1 THEN [doc |-> "D1", seq |-> i - 1, sim |-> 1]
     ELSE IF i = HardMax + 2 THEN [doc |-> "D2", seq |-> 0, sim |-> 2]
     ELSE [doc |-> "D3", seq |-> 0, sim |-> 2]]

Stores == {<< >>, ChunkStore, BigStore}

\* the fields of the requests of other callers
Queries == {"", " ", "rates"}
CategoryLists == {<< >>} \cup {<< c >> : c \in Categories}
Dates == {NullDate} \cup (1..MaxDay)
IdLists == {<< >>, << "D1" >>, << "D3" >>, << "D2", "D1" >>}
Ks == {-1, 0, 1, K, HardMax + 1}

DirectRequests ==
  [query : Queries, categories : CategoryLists, start_date : Dates,
   end_date : Dates, message_ids : IdLists, k : Ks]

\* the filters a send may find in force
FilterValues ==
  [category : Categories \cup {NoCategory}, start : {Unset} \cup (1..MaxDay),
   end : {Unset} \cup (1..MaxDay)]

\* the selection holding the rows ids, flagged under f
ContextOf(ids, f) ==
  [i \in 1..Len(ids) |-> WithOC(RowItem(ids[i], << >>),
                                computeOC(RowItem(ids[i], << >>), f))]

\* the texts typed into the message box
RawTexts == {"", " ", "rates", " rates "}

\* MessageInput.submit with the text typed, then handleSend up to the
\* /context request of the path taken (one request is followed per run)
ClientCall(raw, ids, f, sendMode) ==
  LET text == Trim(raw)
      reqs == IF sendMode = "llm"
                THEN LLMContextRequests(text, ids, f)
                ELSE AskContextRequests(text, ContextOf(ids, f), f)
  IN /\ request = << >>
     /\ caller = "none"
     /\ IF text = ""
          THEN UNCHANGED << request, caller >>
          ELSE /\ request' = reqs
               /\ caller' = "client"
     /\ last' = Event("submit", raw)
     /\ UNCHANGED << store, result >>
     /\ UNCHANGED selVars
     /\ UNCHANGED chatVars
     /\ UNCHANGED nbVars

\* another caller posts a request
DirectCall(req) ==
  /\ request = << >>
  /\ caller = "none"
  /\ request' = << req >>
  /\ caller' = "direct"
  /\ last' = Event("direct", "")
  /\ UNCHANGED << store, result >>
  /\ UNCHANGED selVars
  /\ UNCHANGED chatVars
  /\ UNCHANGED nbVars

\* the service answers the request (again)
Assemble ==
  /\ Len(request) = 1
  /\ Len(result) < MaxCalls
  /\ result' = Append(result, assembleContext(request[1]))
  /\ UNCHANGED << store, request, caller, last >>
  /\ UNCHANGED selVars
  /\ UNCHANGED chatVars
  /\ UNCHANGED nbVars

InitContext ==
  /\ context = << >>
  /\ filters = InitFilters
  /\ flows = EmptyBag
  /\ page = InitPage
  /\ sends = {}
  /\ llmMessages = << >>
  /\ messages = << >>
  /\ loading = FALSE
  /\ askStatus = [sid |-> 0, status |-> "idle"]
  /\ nextSid = 0
  /\ store \in Stores
  /\ request = << >>
  /\ result = << >>
  /\ caller = "none"
  /\ nb = InitNotebook
  /\ rendered = InitNotebook
  /\ calls = {}
  /\ created = {}
  /\ shutdowns = {}
  /\ nextCall = 0
  /\ edits = 0
  /\ runs = {}
  /\ last = Event("mount", "")

NextContext ==
  \/ \E raw \in RawTexts, ids \in IdLists, f \in FilterValues, sendMode \in SendModes :
       ClientCall(raw, ids, f, sendMode)
  \/ \E req \in DirectRequests : DirectCall(req)
  \/ Assemble

SpecContext == InitContext /\ [][NextContext]_vars

(***************************************************************************)
(* NotebookProvider: openFile, newNotebook, and the effects on a render.   *)
(* State updates are queued by the continuation that makes them; a render  *)
(* commits the state reached and runs the effects whose dependencies       *)
(* changed since the render before.                                        *)
(***************************************************************************)
\* openFile / newNotebook calls in one run
MaxOpens == 2

\* the notebooks of /notebook/list
FileNames == {"a", "b"}

\* session_id of the n-th POST /notebook/new that succeeds
SessionId(n) == << "s1", "s2", "s3", "s4" >>[n]

\* CellData
Cell(id, code, output) == [id |-> id, code |-> code, output |-> output]

\* the cells GET /notebook/file/{name} returns
FileCells(name) == << Cell(name, "code", "") >>

\* the starter cell of a new notebook
Starter == << Cell("starter", "import", "") >>

\* the path save requests go to
SavePath(st) ==
  IF st.file # "" /\ st.file # st.session
    THEN << "file", st.file >> ELSE << "session", st.session >>

\* shutdown() of the render a function was created in: the sessions it posts
\* a shutdown request for
shutdown(st) == IF st.session # "" THEN {st.session} ELSE {}

\* what `last` records of a render: whether the autosave effect posted, and
\* the request
RenderEvent(op, st) ==
  [op |-> op, id |-> "", f |-> [path |-> SavePath(st), cells |-> st.cells]]

\* a call up to its first await: shutdown() with the session of the render
\* the called function belongs to
StartCall(op, name) ==
  /\ nextCall < MaxOpens
  /\ nextCall' = nextCall + 1
  /\ shutdowns' = shutdowns \cup shutdown(rendered)
  /\ calls' = calls \cup {[cid |-> nextCall', op |-> op, name |-> name,
                           sid |-> "", pc |-> "shutdown"]}
  /\ last' = Event(op, name)
  /\ UNCHANGED << nb, rendered, created >>
  /\ UNCHANGED selVars
  /\ UNCHANGED chatVars
  /\ UNCHANGED svcVars
  /\ UNCHANGED << edits, runs >>

openFile(name) == StartCall("openFile", name)

newNotebook == StartCall("newNotebook", "")

\* await shutdown() returns (errors are ignored): setLoaded(false), then
\* POST /notebook/new
ShutdownSettled(c) ==
  /\ c \in calls
  /\ c.pc = "shutdown"
  /\ nb' = [nb EXCEPT !.loaded = FALSE]
  /\ calls' = (calls \ {c}) \cup {[c EXCEPT !.pc = "new"]}
  /\ last' = Event("shutdownSettled", c.name)
  /\ UNCHANGED << rendered, created, shutdowns, nextCall >>
  /\ UNCHANGED selVars
  /\ UNCHANGED chatVars
  /\ UNCHANGED svcVars
  /\ UNCHANGED << edits, runs >>

\* POST /notebook/new answers with success: setSession(sid), setFileName,
\* and for a new notebook setCells(starter) and the save of the starter
NewAnswered(c) ==
  /\ c \in calls
  /\ c.pc = "new"
  /\ LET sid == SessionId(Cardinality(created) + 1)
     IN /\ created' = created \cup {sid}
        /\ nb' = IF c.op = "openFile"
                   THEN [nb EXCEPT !.session = sid, !.file = c.name]
                   ELSE [nb EXCEPT !.session = sid, !.file = sid,
                                   !.cells = Starter]
        /\ calls' = (calls \ {c}) \cup
             {[c EXCEPT !.sid = sid,
                        !.pc = IF c.op = "openFile" THEN "file" ELSE "save"]}
  /\ last' = Event("newAnswered", c.name)
  /\ UNCHANGED << rendered, shutdowns, nextCall >>
  /\ UNCHANGED selVars
  /\ UNCHANGED chatVars
  /\ UNCHANGED svcVars
  /\ UNCHANGED << edits, runs >>

\* POST /notebook/new answers success: false, or throws: the call ends
NewRefused(c) ==
  /\ c \in calls
  /\ c.pc = "new"
  /\ calls' = calls \ {c}
  /\ last' = Event("newRefused", c.name)
  /\ UNCHANGED << nb, rendered, created, shutdowns, nextCall >>
  /\ UNCHANGED selVars
  /\ UNCHANGED chatVars
  /\ UNCHANGED svcVars
  /\ UNCHANGED << edits, runs >>

\* GET /notebook/file/{name} answers: setCells(its cells, or [] without
\* success), setLoaded(true)
FileAnswered(c, ok) ==
  /\ c \in calls
  /\ c.pc = "file"
  /\ nb' = [nb EXCEPT !.cells = IF ok THEN FileCells(c.name) ELSE << >>,
                      !.loaded = TRUE]
  /\ calls' = calls \ {c}
  /\ last' = Event("fileAnswered", c.name)
  /\ UNCHANGED << rendered, created, shutdowns, nextCall >>
  /\ UNCHANGED selVars
  /\ UNCHANGED chatVars
  /\ UNCHANGED svcVars
  /\ UNCHANGED << edits, runs >>

\* the save of the starter cell returns: setLoaded(true)
StarterSaved(c) ==
  /\ c \in calls
  /\ c.pc = "save"
  /\ nb' = [nb EXCEPT !.loaded = TRUE]
  /\ calls' = calls \ {c}
  /\ last' = Event("starterSaved", c.name)
  /\ UNCHANGED << rendered, created, shutdowns, nextCall >>
  /\ UNCHANGED selVars
  /\ UNCHANGED chatVars
  /\ UNCHANGED svcVars
  /\ UNCHANGED << edits, runs >>

\* the GET of the file or the save of the starter throws: the call ends
LoadThrows(c) ==
  /\ c \in calls
  /\ c.pc \in {"file", "save"}
  /\ calls' = calls \ {c}
  /\ last' = Event("loadThrows", c.name)
  /\ UNCHANGED << nb, rendered, created, shutdowns, nextCall >>
  /\ UNCHANGED selVars
  /\ UNCHANGED chatVars
  /\ UNCHANGED svcVars
  /\ UNCHANGED << edits, runs >>

\* the autosave effect posts: a dependency changed, and session && loaded
Autosaves(st) == st.session # "" /\ st.loaded

\* React commits the queued state: the cleanup of the [session] effect calls
\* the shutdown of the render before when session changed, and the autosave
\* effect runs
Render ==
  /\ nb # rendered
  /\ rendered' = nb
  /\ shutdowns' = shutdowns \cup
       (IF nb.session # rendered.session THEN shutdown(rendered) ELSE {})
  /\ last' = RenderEvent(IF Autosaves(nb) THEN "autosave" ELSE "render", nb)
  /\ UNCHANGED << nb, calls, created, nextCall >>
  /\ UNCHANGED selVars
  /\ UNCHANGED chatVars
  /\ UNCHANGED svcVars
  /\ UNCHANGED << edits, runs >>

\* cell changes in one run
MaxEdits == 1

\* `cell-${Date.now()}` of the n-th cell change
NewCellId(n) == << "c1", "c2", "c3" >>[n]

CellIds(cells) == { cells[i].id : i \in 1..Len(cells) }

\* addCell: setCells((c) => [...c, { id, code: "" }])
addCell ==
  /\ edits < MaxEdits
  /\ edits' = edits + 1
  /\ nb' = [nb EXCEPT !.cells = Append(@, Cell(NewCellId(edits'), "", ""))]
  /\ last' = Event("addCell", "")
  /\ UNCHANGED << rendered, calls, created, shutdowns, nextCall, runs >>
  /\ UNCHANGED selVars
  /\ UNCHANGED chatVars
  /\ UNCHANGED svcVars

\* updateCell(id, code) for a cell on screen
updateCell(id) ==
  /\ edits < MaxEdits
  /\ id \in CellIds(rendered.cells)
  /\ edits' = edits + 1
  /\ nb' = [nb EXCEPT !.cells =
              [i \in 1..Len(@) |->
                 IF @[i].id = id THEN [@[i] EXCEPT !.code = "edited"] ELSE @[i]]]
  /\ last' = Event("updateCell", id)
  /\ UNCHANGED << rendered, calls, created, shutdowns, nextCall, runs >>
  /\ UNCHANGED selVars
  /\ UNCHANGED chatVars
  /\ UNCHANGED svcVars

\* runCell(id) up to its await: the cell and the session of the render on
\* screen
runCell(id) ==
  /\ edits < MaxEdits
  /\ id \in CellIds(rendered.cells)
  /\ edits' = edits + 1
  /\ runs' = runs \cup {[id |-> id, session |-> rendered.session, n |-> edits']}
  /\ last' = Event("runCell", id)
  /\ UNCHANGED << nb, rendered, calls, created, shutdowns, nextCall >>
  /\ UNCHANGED selVars
  /\ UNCHANGED chatVars
  /\ UNCHANGED svcVars

\* /execute answers: with success the output is set on the cell of that id
RunAnswered(r, ok) ==
  /\ r \in runs
  /\ runs' = runs \ {r}
  /\ nb' = IF ok
             THEN [nb EXCEPT !.cells =
                     [i \in 1..Len(@) |->
                        IF @[i].id = r.id THEN [@[i] EXCEPT !.output = "out"]
                        ELSE @[i]]]
             ELSE nb
  /\ last' = Event("runAnswered", r.id)
  /\ UNCHANGED << rendered, calls, created, shutdowns, nextCall, edits >>
  /\ UNCHANGED selVars
  /\ UNCHANGED chatVars
  /\ UNCHANGED svcVars

NextNotebook ==
  \/ addCell
  \/ \E id \in CellIds(rendered.cells) : updateCell(id)
  \/ \E id \in CellIds(rendered.cells) : runCell(id)
  \/ \E r \in runs, ok \in BOOLEAN : RunAnswered(r, ok)
  \/ \E name \in FileNames : openFile(name)
  \/ newNotebook
  \/ \E c \in calls : ShutdownSettled(c)
  \/ \E c \in calls : NewAnswered(c)
  \/ \E c \in calls : NewRefused(c)
  \/ \E c \in calls, ok \in BOOLEAN : FileAnswered(c, ok)
  \/ \E c \in calls : StarterSaved(c)
  \/ \E c \in calls : LoadThrows(c)
  \/ Render

SpecNotebook == Init /\ [][NextNotebook]_vars

(***************************************************************************)
(* Properties of the selection (checked under Spec).                       *)
(***************************************************************************)
FilterOps == {"category", "range", "rangeClear", "rangeReset"}
ToggleOps == {"deselect", "toggled"}

Pinned(id) == \E i \in 1..Len(context) : context[i].messageId = id
PinnedItem(id) == context[CHOOSE i \in 1..Len(context) : context[i].messageId = id]

\* the item passed by the toggle that `ev` records
ToggledItem(ev) ==
  RowItem(ev.id, IF ev.op = "deselect" THEN << >> ELSE ChunkedText(ev.id))

\* C1: right after a setFilters call and the recomputation it triggers, every
\* pinned item's oc flag equals computeOC of the item under the merged
\* filters, whatever the selection and the flags were before the call.
C1_FlagsFreshAfterSetFilters ==
  last.op \in FilterOps =>
    \A i \in 1..Len(context) : context[i].oc = computeOC(context[i], filters)

\* Scenario E: D1 ("econ") pinned, then the category filter set to "tech"
C1_Witness ==
  /\ last.op = "category"
  /\ filters.category = "tech"
  /\ Pinned("D1")
  /\ PinnedItem("D1").oc

\* C2: an item that a step adds to the selection carries the flag computed
\* under the filters current when it is added.
C2_NewItemFlagCurrent ==
  [][\A i \in 1..Len(context') :
       context'[i].messageId \notin Ids(context) =>
         context'[i].oc = computeOC(context'[i], filters')]_vars

\* C3 as stated: a second toggle of the same item right after the first
\* yields the selection as it was before the first.
C3_ToggleTwiceRestores ==
  [][last'.op \in ToggleOps =>
       toggleContext(context', ToggledItem(last'), filters') = context]_vars

\* C3 amended: toggling twice restores the selection exactly when the item
\* was absent; when it was pinned, the same ids are pinned, the other items
\* keep their fields, flags and relative order, and the toggled item is
\* re-added last with the passed fields and a flag computed under the
\* filters.
C3_ToggleTwiceAmended ==
  [][last'.op \in ToggleOps =>
       LET c == ToggledItem(last')
           twice == toggleContext(context', c, filters')
           Other(i) == i.messageId # c.messageId
       IN /\ Ids(twice) = Ids(context)
          /\ c.messageId \notin Ids(context) => twice = context
          /\ c.messageId \in Ids(context) =>
               /\ SelectSeq(twice, Other) = SelectSeq(context, Other)
               /\ twice[Len(twice)] = WithOC(c, computeOC(c, filters'))]_vars

\* a pinned row was deselected while another item stays pinned
C3_Witness == last.op = "deselect" /\ Len(context) >= 1

\* the predicate as the specification words it
SpecOutOfContext(item, f) ==
  \/ f.category # NoCategory /\ item.category # f.category
  \/ f.start # Unset /\ item.receivedAt < ParseDate(f.start)
  \/ f.end # Unset /\ item.receivedAt >= AddDay(ParseDate(f.end))

\* C4: for every pinned item and the filters in force, computeOC is true
\* exactly when the category filter is set and differs from the item's
\* category, or the item is received before start, or on or after end + 1 day.
C4_PredicateAsSpecified ==
  \A i \in 1..Len(context) :
    computeOC(context[i], filters) = SpecOutOfContext(context[i], filters)

\* C9: after a click on Clear no item is pinned.
C9_ClearEmpties == last.op = "clear" => context = << >>

\* C10: a setFilters call gives every field its partial names the passed
\* value, leaves the other fields as they were, and keeps the pinned items,
\* their order and every item field except oc.
C10_SetFiltersMerges ==
  [][last'.op \in FilterOps =>
       /\ DOMAIN filters' = DOMAIN filters
       /\ \A k \in DOMAIN filters :
            filters'[k] = IF k \in DOMAIN last'.f THEN last'.f[k] ELSE filters[k]
       /\ Len(context') = Len(context)
       /\ \A i \in 1..Len(context) :
            /\ DOMAIN context'[i] = DOMAIN context[i]
            /\ \A k \in DOMAIN context[i] \ {"oc"} :
                 context'[i][k] = context[i][k]]_vars

\* the category was changed while a date range stays set and items are pinned
C10_Witness ==
  /\ last.op = "category"
  /\ filters.category # NoCategory
  /\ filters.start # Unset
  /\ Len(context) >= 1

\* C11: a toggle touches only the entry with the item's id: if that id is
\* pinned, exactly that entry is removed and the other entries keep their
\* fields and order; otherwise the item is added after the existing entries,
\* which are unchanged. The filters and the chat messages stay as they were.
C11_ToggleFrame ==
  [][last'.op \in ToggleOps =>
       LET c == ToggledItem(last')
           Other(i) == i.messageId # c.messageId
       IN /\ c.messageId \in Ids(context) =>
               /\ context' = SelectSeq(context, Other)
               /\ Len(context') = Len(context) - 1
          /\ c.messageId \notin Ids(context) =>
               /\ Len(context') = Len(context) + 1
               /\ SubSeq(context', 1, Len(context)) = context
               /\ \A k \in DOMAIN c : context'[Len(context')][k] = c[k]
          /\ filters' = filters
          /\ messages' = messages
          /\ llmMessages' = llmMessages]_vars

\* a completed Select flow removed an entry (a second flow for the same row
\* had pinned it) while another entry stays pinned under a set filter
C11_Witness ==
  /\ last.op = "toggled"
  /\ ~Pinned(last.id)
  /\ Len(context) >= 1
  /\ AnyFilter(filters)

\* C18: for every pinned item and the filters in force, computeOC of the
\* item is true exactly when useFilters under the same category, start and
\* end drops the item's newsletter from the table.
C18_FlagIffNotListed ==
  \A i \in 1..Len(context) :
    computeOC(context[i], filters) =
      ~useFilters(Newsletters[context[i].messageId],
                  filters.category, filters.start, filters.end)

\* C22: no two pinned items have the same messageId, whatever toggles,
\* Select flows (several for one newsletter included) and filter changes
\* led to the state.
C22_NoDuplicateIds ==
  \A i, j \in 1..Len(context) :
    context[i].messageId = context[j].messageId => i = j

\* two items are pinned, one of them by a Select flow that completed while
\* another flow for the same newsletter is still on its way
C22_Witness ==
  /\ Len(context) = 2
  /\ \E i \in 1..Len(context) :
       \E fl \in BagToSet(flows) : fl.id = context[i].messageId

\* C23: when a Select flow for a newsletter completes with its network calls
\* successful, the newsletter is pinned with the chunks GET
\* /ingest/chunked_text returned, also when another flow for the same row
\* was started before this one completed.
C23_FlowPins ==
  last.op = "toggled" =>
    /\ Pinned(last.id)
    /\ PinnedItem(last.id).chunks = ChunkedText(last.id)

\* C24: after every filter UI event (category change, range selection, range
\* cleared, Reset) the provider's filters equal the page's cat, start and
\* end.
C24_FiltersEqualPage ==
  last.op \in FilterOps =>
    /\ filters.category = page.cat
    /\ filters.start = page.start
    /\ filters.end = page.end

(***************************************************************************)
(* Properties of the chat sends (checked under SpecChat).                  *)
(***************************************************************************)
\* the step issues a send
SendStep == nextSid' = nextSid + 1

\* C5: a send issued while items are pinned posts one /context request whose
\* message_ids are exactly the pinned items' ids in order (flagged items
\* included), with empty categories and null dates whatever the filters; and
\* every document returned for such a request is one of the listed ones.
C5_ExplicitOverridesFilters ==
  [][/\ (SendStep /\ Len(context) > 0) =>
          \E s \in sends' \ sends :
            /\ Len(s.reqs) = 1
            /\ "message_ids" \in DOMAIN s.reqs[1]
            /\ s.reqs[1].message_ids =
                 [i \in 1..Len(context) |-> context[i].messageId]
            /\ s.reqs[1].categories = << >>
            /\ s.reqs[1].start_date = NullDate
            /\ s.reqs[1].end_date = NullDate
     /\ \A s \in sends' :
          (s.ctx = "ok" /\ IsExplicit(s.reqs[1])) =>
            \A j \in 1..Len(s.data) :
              s.data[j].metadata.message_id \in Range(s.reqs[1].message_ids)]_vars

\* a send made with a flagged item pinned under a category filter got chunks
C5_Witness ==
  /\ filters.category # NoCategory
  /\ \E i \in 1..Len(context) : context[i].oc
  /\ \E s \in sends :
       /\ s.ctx = "ok"
       /\ IsExplicit(s.reqs[1])
       /\ Len(s.data) > 0
       /\ \A i \in 1..Len(context) :
            context[i].messageId \in Range(s.reqs[1].message_ids)

\* the scope the priority rule gives a send
ExpectedScope(ctx, f) ==
  IF Len(ctx) > 0 THEN "explicit"
  ELSE IF AnyFilter(f) THEN "filtered" ELSE "unfiltered"

\* C6: every send, on either path, issues exactly one /context request, in
\* the scope the priority rule gives: explicit, else filtered, else
\* unfiltered.
C6_OneRequestByPriority ==
  [][SendStep =>
       \E s \in sends' \ sends :
         /\ Len(s.reqs) = 1
         /\ ScopeOf(s.reqs[1]) = ExpectedScope(context, filters)]_vars

\* C7: a send whose context retrieval failed (success: false, or a throw)
\* does not go on to request a reply as if nothing had matched.
C7_FailureNotSwallowed ==
  \A s \in sends : s.ctx \in {"failed", "threw"} => s.stage # "reply"

\* no reply to a send follows the user message of a later send
InIssueOrder(msgs) ==
  \A i, j \in 1..Len(msgs) :
    (i < j /\ msgs[j].role = "assistant") => msgs[i].sid <= msgs[j].sid

\* C8: the response of a send superseded by a newer send is discarded: it is
\* never appended to a transcript after the newer send was issued.
C8_SupersededDiscarded == InIssueOrder(llmMessages) /\ InIssueOrder(messages)

\* C15: a /context request of a send whose candidate set is empty (the
\* filters exclude every document, or the listed ids have no chunk) is
\* answered with success and no chunks; and a send so answered goes on to
\* request its reply, without a context block.
C15_EmptyIsNotAnError ==
  \A s \in sends :
    /\ (s.stage = "context" /\ Candidates(s.reqs[1]) = {}) =>
         /\ assembleContext(s.reqs[1]).success
         /\ assembleContext(s.reqs[1]).data = << >>
    /\ (s.ctx = "ok" /\ s.data = << >>) =>
         s.stage = "reply" /\ ~HasContextBlock(s)

\* the filters in force exclude every document, and a send's request made
\* under them was answered with success and no chunks
C15_Witness ==
  /\ \A id \in MessageIds :
       ~useFilters(Newsletters[id], filters.category, filters.start, filters.end)
  /\ \E s \in sends :
       /\ s.ctx = "ok"
       /\ IsFiltered(s.reqs[1])
       /\ s.data = << >>
       /\ s.stage = "reply"

\* C17: a step of a send (its issue, the arrival of its /context response,
\* its reply) leaves the pinned items, their flags, the filters and the
\* chunk store as they were.
C17_SendIsPureRead ==
  [][sends' # sends =>
       /\ context' = context
       /\ filters' = filters
       /\ store' = store]_vars

\* both sends were issued with a flagged item pinned under a set filter, and
\* one of them has its chunks
C17_Witness ==
  /\ nextSid = MaxSends
  /\ AnyFilter(filters)
  /\ \E i \in 1..Len(context) : context[i].oc
  /\ \E s \in sends : s.ctx = "ok" /\ HasContextBlock(s)

\* the LLM sends awaiting a response, and their numbers
LLMSends == { s \in sends : s.path = "llm" }
LLMSids(S) == { s.sid : s \in { t \in S : t.path = "llm" } }

\* the messages of the LLM transcript with the role, of send n
Count(role, n) ==
  Cardinality({ i \in 1..Len(llmMessages) :
                  llmMessages[i].role = role /\ llmMessages[i].sid = n })

LLMOutcomes == LLMReplies \cup {"[LLM error: could not get response]"}

\* C25: an LLM send appends exactly one user message as it is issued; the step
\* that settles its LLM request appends exactly one assistant message (the
\* reply, "[No LLM reply]" or "[LLM error: could not get response]") and
\* sets loading to false, and no other step changes the transcript; and
\* every LLM send issued is settled in the end, also when its context
\* retrieval failed.
C25_SendSettles ==
  /\ [][/\ \A n \in LLMSids(sends') \ LLMSids(sends) :
            \E text \in Texts : llmMessages' = Append(llmMessages, UserMsg(n, text))
        /\ \A n \in LLMSids(sends) \ LLMSids(sends') :
            /\ \E text \in LLMOutcomes :
                 llmMessages' = Append(llmMessages, AssistantMsg(n, text))
            /\ loading' = FALSE
        /\ LLMSids(sends') = LLMSids(sends) => llmMessages' = llmMessages]_vars
  /\ [](\A n \in 1..nextSid :
          /\ Count("user", n) <= 1
          /\ Count("assistant", n) =
               IF Count("user", n) = 1 /\ n \notin LLMSids(sends) THEN 1 ELSE 0
          /\ n \in LLMSids(sends) => Count("user", n) = 1)
  /\ []<>(LLMSids(sends) = {})

\* the LLM request of a send whose context retrieval had failed has settled:
\* its assistant message ends the transcript and loading is false
C25_Witness ==
  /\ last.op = "replyNoContext"
  /\ Len(llmMessages) >= 2
  /\ llmMessages[Len(llmMessages)].role = "assistant"
  /\ Count("user", llmMessages[Len(llmMessages)].sid) = 1
  /\ ~loading

\* C26: loading is true in every state in which an LLM send is in flight (its
\* user message appended, its assistant message not yet), also when another
\* send has completed meanwhile.
C26_LoadingWhileInFlight == LLMSends # {} => loading

\* the place of the user message of send n in the LLM transcript
UserAt(n) ==
  CHOOSE i \in 1..Len(llmMessages) :
    llmMessages[i].role = "user" /\ llmMessages[i].sid = n

\* C27: in the LLM transcript the assistant messages are in the order of the
\* user messages they answer; and the messages of the LLM request of a send
\* are the transcript messages present when the send was issued, in order,
\* then its user message, after one system context message exactly when the
\* send holds at least one chunk.
C27_OrderedTranscript ==
  /\ \A i, j \in 1..Len(llmMessages) :
       (/\ i < j
        /\ llmMessages[i].role = "assistant"
        /\ llmMessages[j].role = "assistant") =>
          UserAt(llmMessages[i].sid) < UserAt(llmMessages[j].sid)
  /\ \A s \in LLMSends :
       s.stage = "reply" =>
         LET issued == SubSeq(llmMessages, 1, UserAt(s.sid))
             req == LLMRequest(s)
         IN IF Len(s.chunks) > 0
              THEN /\ req[1].role = "system"
                   /\ SubSeq(req, 2, Len(req)) = issued
              ELSE req = issued

(***************************************************************************)
(* Properties of the context service (checked under SpecContext).          *)
(***************************************************************************)
\* C12: every successful response holds at most k chunks for the requested
\* bound k and at most HardMax chunks whatever k is (a larger k is clamped),
\* a failed one holds none; and the requests the send paths build ask for
\* k = 5.
C12_BoundedByK ==
  /\ \A j \in 1..Len(result) :
       IF result[j].success
         THEN /\ Len(result[j].data) <= request[1].k
              /\ Len(result[j].data) <= HardMax
         ELSE Len(result[j].data) = 0
  /\ caller = "client" => \A i \in 1..Len(request) : request[i].k = K

\* a bound above the hard maximum was asked of a store with more candidates
\* than that, and HardMax chunks came back
C12_Witness ==
  /\ Len(result) >= 1
  /\ request[1].k > HardMax
  /\ Cardinality(Candidates(request[1])) > HardMax
  /\ Len(result[1].data) = HardMax

\* the newsletter a returned chunk belongs to
Owner(d) == Newsletters[d.metadata.message_id]

\* C13: in filtered mode (a filter set, no document ids) the owning document
\* of every returned chunk has the requested category when one is set, is
\* received at or after midnight of start when start is set, and before
\* midnight of the day after end when end is set.
C13_FilteredMatchesAll ==
  \A j \in 1..Len(result) :
    (result[j].success /\ IsFiltered(request[1])) =>
      \A i \in 1..Len(result[j].data) :
        LET n == Owner(result[j].data[i])
            req == request[1]
        IN /\ Len(req.categories) > 0 => n.category = req.categories[1]
           /\ req.start_date # NullDate =>
                n.received_at >= req.start_date * TicksPerDay
           /\ req.end_date # NullDate =>
                n.received_at < (req.end_date + 1) * TicksPerDay

\* D1 "econ" and D2 "tech" are stored with chunks, and a request with
\* categories ["econ"] and no dates got exactly D1's chunks
C13_Witness ==
  /\ store = ChunkStore
  /\ Len(result) >= 1
  /\ IsFiltered(request[1])
  /\ request[1].categories = << "econ" >>
  /\ request[1].start_date = NullDate
  /\ request[1].end_date = NullDate
  /\ Len(result[1].data) = 2
  /\ \A i \in 1..Len(result[1].data) :
       result[1].data[i].metadata.message_id = "D1"

\* C14: a request whose query is empty or blank, or whose bound is zero or
\* negative, is answered with the failure InvalidRequest and no chunks; a
\* submit of an empty or blank text calls no send and posts no request, and
\* the request a submit posts carries the text without its surrounding
\* blanks.
C14_EmptyQueryRejected ==
  /\ \A j \in 1..Len(result) :
       (request[1].query \in {"", " "} \/ request[1].k <= 0) =>
         /\ ~result[j].success
         /\ result[j].error = "InvalidRequest"
         /\ result[j].data = << >>
  /\ (last.op = "submit" /\ last.id \in {"", " "}) =>
       caller = "none" /\ request = << >>
  /\ (last.op = "submit" /\ last.id \in {"rates", " rates "}) =>
       caller = "client" /\ \A i \in 1..Len(request) : request[i].query = "rates"

\* a request with a blank query and a positive bound was answered
C14_Witness ==
  /\ Len(result) >= 1
  /\ request[1].query = " "
  /\ request[1].k > 0
  /\ result[1].error = "InvalidRequest"

\* the chunk id (store position) of a returned chunk
ChunkId(d) ==
  CHOOSE i \in 1..Len(store) :
    store[i].doc = d.metadata.message_id /\ store[i].seq = d.page_content[2]

C19_NoOrphanSessions ==
  (calls = {} /\ nb = rendered) =>
    \A sid \in created : sid # nb.session => sid \in shutdowns

\* a call has switched the session and the file name to its notebook, which
\* has not finished loading
Switching ==
  \E c \in calls : c.pc \in {"file", "save"} /\ c.sid = nb.session

\* C20: a render posts an autosave request only with a session and loaded
\* true, and never while the notebook the session and file name were
\* switched to has not finished loading.
C20_AutosaveWaitsForLoad ==
  last.op = "autosave" =>
    /\ nb.session # ""
    /\ nb.loaded
    /\ ~Switching

\* C21: a render that commits changed cells of a loaded notebook with a
\* session posts a save request carrying the cells committed, to
\* /notebook/file/{file}/save when a file name is set and differs from the
\* session and to /notebook/{session}/save otherwise; and when a call ends
\* because POST /notebook/new failed and no other call is in flight, the
\* notebook of the current session is loaded again, so that autosave is
\* enabled.
C21_ChangesAreSaved ==
  [][/\ (/\ rendered'.cells # rendered.cells
          /\ rendered'.session # ""
          /\ rendered'.loaded) =>
            /\ last'.op = "autosave"
            /\ last'.f.cells = nb'.cells
            /\ last'.f.path =
                 IF nb'.file # "" /\ nb'.file # nb'.session
                   THEN << "file", nb'.file >> ELSE << "session", nb'.session >>
     /\ (last'.op = "newRefused" /\ calls' = {} /\ nb'.session # "") =>
          nb'.loaded]_vars

====
